---- MODULE Spec2Model ----
(***************************************************************************)
(* AdvancedConservationTracker (conservation_project.py): the three        *)
(* coroutines create_conservation_project, add_project_milestones and      *)
(* validate_project_impact, with _validate_validators inlined where it is  *)
(* awaited.  A coroutine runs atomically between two awaits, so there is   *)
(* one action per call and one per resumption of an await.  The registry   *)
(* and the blockchain client are external: what they answer is drawn from  *)
(* small sets.                                                             *)
(*                                                                         *)
(* Numbers.  Decimal target_funding is held in thousandths (19.995 is      *)
(* 19995), float funding_percentage in halves (33.5 is 67) and float       *)
(* metric values in quarters (1.25 is 5): on these dyadic values the       *)
(* float sum and the float product by 100 are exact, so integer            *)
(* arithmetic is what the code computes.                                   *)
(***************************************************************************)
EXTENDS Integers, Sequences, FiniteSets, TLC

VARIABLES
    pc,          \* per create call: "idle", "lookup", "execute", "done"
    project,     \* per create call: the ConservationProject passed in
    proposed,    \* per create call: proposed_validators
    infos,       \* per create call: what get_validator_details answered so far
    verified,    \* per create call: the local verified_validators
    vvResult,    \* per create call: how _validate_validators ended
    request,     \* per create call: tx_params handed to execute_contract_call
    execCount,   \* per create call: number of execute_contract_call invocations
    fault,       \* per create call: the exception raised inside the try body
    outcome,     \* per create call: what the caller receives
    mpc,         \* add_project_milestones: "idle", "execute", "done"
    milestones,  \* add_project_milestones: the milestones passed in
    mrequest,    \* add_project_milestones: tx_params handed to the gateway
    mexecCount,  \* add_project_milestones: number of execute_contract_call invocations
    mfault,      \* add_project_milestones: the exception raised inside the try body
    moutcome,    \* add_project_milestones: what the caller receives
    ipc,         \* validate_project_impact: "idle", "fetch", "collect", "execute", "executed", "failed"
    metrics,     \* validate_project_impact: impact_metrics passed in
    details,     \* validate_project_impact: what get_project_details answered
    validators,  \* validate_project_impact: the local project_validators
    validated,   \* validate_project_impact: the local validated_metrics
    trace        \* validate_project_impact: the calls made on collaborators, in order

createVars == <<pc, project, proposed, infos, verified, vvResult, request, execCount, fault, outcome>>
milestoneVars == <<mpc, milestones, mrequest, mexecCount, mfault, moutcome>>
impactVars == <<ipc, metrics, details, validators, validated, trace>>
vars == <<createVars, milestoneVars, impactVars>>

----------------------------------------------------------------------------
(* Bounds of the model *)

MaxValidators == 3
MaxConcValidators == 2
MaxMilestones == 3
MaxMetrics == 2

(* Policy constants of the code *)

REPUTATION_THRESHOLD == 75
MIN_VALIDATORS == 2
TOTAL_PERCENTAGE == 100

----------------------------------------------------------------------------
(* Inputs *)

Calls == {"c1", "c2"}
ValidatorIds == {"v1", "v2", "v3"}
ConcValidatorIds == {"v1", "v2"}

SeqsUpTo(S, n) == UNION {[1..k -> S] : k \in 0..n}

\* target_funding in thousandths: 500000.00, 19.995, 19.999, -19.995
Projects ==
    [name : {"Amazon Rainforest Restoration"},
     description : {"Reforestation"},
     target_funding : {500000000, 19995, 19999, -19995}]
ConcProjects ==
    [name : {"Amazon Rainforest Restoration"},
     description : {"Reforestation"},
     target_funding : {500000000}]

\* get_validator_details: None, a record with a reputation_score, or an exception
RegistryNone == [kind |-> "none", reputation_score |-> 0]
RegistryRaise == [kind |-> "raise", reputation_score |-> 0]
RegistryInfo(s) == [kind |-> "info", reputation_score |-> s]
RegistryReplies == {RegistryNone, RegistryRaise} \cup {RegistryInfo(s) : s \in {74, 75, 80}}
ConcRegistryReplies == {RegistryRaise, RegistryInfo(74), RegistryInfo(80)}

\* execute_contract_call: a response, or an exception
GatewayOk == [kind |-> "response", value |-> "tx-receipt"]
GatewayRaise == [kind |-> "raise", value |-> "GatewayError"]
GatewayReplies == {GatewayOk, GatewayRaise}

NoRequest == [method |-> "none", args |-> <<>>]
Pending == [kind |-> "pending", value |-> "none"]
Returned(v) == [kind |-> "returned", value |-> v]
Raised(e) == [kind |-> "raised", value |-> e]

----------------------------------------------------------------------------
(* create_conservation_project and _validate_validators *)

\* line 113: validator_info and validator_info['reputation_score'] >= 75
QualifiesStrict(r) == r.kind = "info" /\ r.reputation_score > REPUTATION_THRESHOLD
Qualifies(r) == r.kind = "info" /\ r.reputation_score >= REPUTATION_THRESHOLD

\* line 114: verified_validators.append(validator), on the call's own local list
AppendVerifiedShared(vf, c, v) == [d \in DOMAIN vf |-> Append(vf[d], v)]
AppendVerified(vf, c, v) == [vf EXCEPT ![c] = Append(@, v)]

\* line 116: len(verified_validators) < 2
InsufficientLoose(vs) == Len(vs) < MIN_VALIDATORS - 1
Insufficient(vs) == Len(vs) < MIN_VALIDATORS

\* line 83: int(project.target_funding * 100); int() drops the fraction, toward zero
ToCentsFloor(mills) == mills \div 10
ToCents(mills) == IF mills >= 0 THEN mills \div 10 ELSE -((-mills) \div 10)

\* lines 78-86: tx_params
CreateTxParams(p, vs) ==
    [method |-> "create-conservation-project",
     args |-> <<p.name, p.description, ToCents(p.target_funding), vs>>]

\* lines 96-98 and 158-160: except Exception as e: log, then a bare raise
ExceptHandlerSwallow(e) == Returned("None")
ExceptHandler(e) == Raised(e)

\* lines 116-119, then lines 78-89: the end of _validate_validators and, when it
\* returns, the request handed to execute_contract_call, which is awaited
AfterLoop(c, vs) ==
    IF Insufficient(vs)
    THEN /\ vvResult' = [vvResult EXCEPT ![c] = Raised("InsufficientValidators")]
         /\ fault' = [fault EXCEPT ![c] = "InsufficientValidators"]
         /\ outcome' = [outcome EXCEPT ![c] = ExceptHandler("InsufficientValidators")]
         /\ pc' = [pc EXCEPT ![c] = "done"]
         /\ UNCHANGED <<request, execCount>>
    ELSE /\ vvResult' = [vvResult EXCEPT ![c] = Returned(vs)]
         /\ request' = [request EXCEPT ![c] = CreateTxParams(project'[c], vs)]
         /\ execCount' = [execCount EXCEPT ![c] = @ + 1]
         /\ pc' = [pc EXCEPT ![c] = "execute"]
         /\ UNCHANGED <<fault, outcome>>

\* lines 61-75 and 107-111: the call, up to the first await of the registry
CreateCall(c, projects, ids, maxLen) ==
    /\ pc[c] = "idle"
    /\ \E p \in projects, vs \in SeqsUpTo(ids, maxLen) :
        /\ project' = [project EXCEPT ![c] = p]
        /\ proposed' = [proposed EXCEPT ![c] = vs]
        /\ verified' = [verified EXCEPT ![c] = <<>>]
        /\ UNCHANGED infos
        /\ IF vs = <<>>
           THEN AfterLoop(c, <<>>)
           ELSE /\ pc' = [pc EXCEPT ![c] = "lookup"]
                /\ UNCHANGED <<vvResult, request, execCount, fault, outcome>>
    /\ UNCHANGED <<milestoneVars, impactVars>>

\* lines 111-119: get_validator_details answers; one turn of the loop
LookupReturn(c, replies) ==
    /\ pc[c] = "lookup"
    /\ \E r \in replies :
        LET v == proposed[c][Len(infos[c]) + 1]
            got == Append(infos[c], r)
        IN  /\ infos' = [infos EXCEPT ![c] = got]
            /\ UNCHANGED <<project, proposed>>
            /\ IF r.kind = "raise"
               THEN /\ vvResult' = [vvResult EXCEPT ![c] = Raised("RegistryError")]
                    /\ fault' = [fault EXCEPT ![c] = "RegistryError"]
                    /\ outcome' = [outcome EXCEPT ![c] = ExceptHandler("RegistryError")]
                    /\ pc' = [pc EXCEPT ![c] = "done"]
                    /\ UNCHANGED <<verified, request, execCount>>
               ELSE /\ verified' = IF Qualifies(r) THEN AppendVerified(verified, c, v)
                                                   ELSE verified
                    /\ IF Len(got) = Len(proposed[c])
                       THEN AfterLoop(c, verified'[c])
                       ELSE UNCHANGED <<pc, vvResult, request, execCount, fault, outcome>>
    /\ UNCHANGED <<milestoneVars, impactVars>>

\* lines 89-98: execute_contract_call answers
ExecuteReturn(c) ==
    /\ pc[c] = "execute"
    /\ \E g \in GatewayReplies :
        IF g.kind = "raise"
        THEN /\ fault' = [fault EXCEPT ![c] = g.value]
             /\ outcome' = [outcome EXCEPT ![c] = ExceptHandler(g.value)]
        ELSE /\ outcome' = [outcome EXCEPT ![c] = Returned(g.value)]
             /\ UNCHANGED fault
    /\ pc' = [pc EXCEPT ![c] = "done"]
    /\ UNCHANGED <<project, proposed, infos, verified, vvResult, request, execCount>>
    /\ UNCHANGED <<milestoneVars, impactVars>>

----------------------------------------------------------------------------
(* add_project_milestones *)

ProjectIds == {1}
Descriptions == {"A", "B"}
\* funding_percentage in halves: -0.5, 33.5, 40, 50, 60, 66.5, 99, 100, 100.5, 101
Percentages == {-1, 67, 80, 100, 120, 133, 198, 200, 201, 202}
Milestones == [description : Descriptions, funding_percentage : Percentages]

\* line 135: sum(m.funding_percentage for m in milestones), 0 for the empty list
RECURSIVE SumPercentages(_)
SumPercentages(ms) ==
    IF ms = <<>> THEN 0
    ELSE ms[1].funding_percentage + SumPercentages(Tail(ms))

\* line 136: total_percentage != 100
PercentageMismatchLoose(total) == total < 2 * TOTAL_PERCENTAGE
PercentageMismatch(total) == total # 2 * TOTAL_PERCENTAGE

\* line 143: int(m.funding_percentage); int() drops the fraction, toward zero
IntOfPercentage(h) == IF h >= 0 THEN h \div 2 ELSE -((-h) \div 2)

\* lines 140-146: milestone_data
MilestoneData(ms) ==
    [i \in 1..Len(ms) |->
        [description |-> ms[i].description,
         funding_percentage |-> IntOfPercentage(ms[i].funding_percentage)]]

\* lines 148-151: tx_params
MilestoneTxParams(pid, ms) ==
    [method |-> "add-project-milestones", args |-> <<pid, MilestoneData(ms)>>]

\* lines 135-153: the percentage check, then the request handed to
\* execute_contract_call, which is awaited
SubmitMilestonesLate(pid, ms) ==
    /\ mrequest' = MilestoneTxParams(pid, ms)
    /\ mexecCount' = mexecCount + 1
    /\ IF PercentageMismatch(SumPercentages(ms))
       THEN /\ mfault' = "InvalidMilestoneAllocation"
            /\ moutcome' = ExceptHandler("InvalidMilestoneAllocation")
            /\ mpc' = "done"
       ELSE /\ mpc' = "execute"
            /\ UNCHANGED <<mfault, moutcome>>
SubmitMilestones(pid, ms) ==
    IF PercentageMismatch(SumPercentages(ms))
    THEN /\ mfault' = "InvalidMilestoneAllocation"
         /\ moutcome' = ExceptHandler("InvalidMilestoneAllocation")
         /\ mpc' = "done"
         /\ UNCHANGED <<mrequest, mexecCount>>
    ELSE /\ mrequest' = MilestoneTxParams(pid, ms)
         /\ mexecCount' = mexecCount + 1
         /\ mpc' = "execute"
         /\ UNCHANGED <<mfault, moutcome>>

\* lines 121-153: the call, up to the await of execute_contract_call
AddMilestonesCall ==
    /\ mpc = "idle"
    /\ \E pid \in ProjectIds, ms \in SeqsUpTo(Milestones, MaxMilestones) :
        /\ milestones' = ms
        /\ SubmitMilestones(pid, ms)
    /\ UNCHANGED <<createVars, impactVars>>

\* lines 153-160: execute_contract_call answers
AddMilestonesExecuteReturn ==
    /\ mpc = "execute"
    /\ \E g \in GatewayReplies :
        IF g.kind = "raise"
        THEN /\ mfault' = g.value
             /\ moutcome' = ExceptHandler(g.value)
        ELSE /\ moutcome' = Returned(g.value)
             /\ UNCHANGED mfault
    /\ mpc' = "done"
    /\ UNCHANGED <<milestones, mrequest, mexecCount>>
    /\ UNCHANGED <<createVars, impactVars>>

----------------------------------------------------------------------------
(* validate_project_impact, lines 174-200 *)

MetricNames == {"trees_planted", "co2_offset"}
\* value in quarters: 1.25, -0.75
MetricValues == {5, -3}
ImpactMetrics == [metric_name : MetricNames, value : MetricValues]

\* get_project_details: an exception, None, a dict without 'validators', a dict with it
DetailsReplies ==
    {[kind |-> k, validators |-> <<>>] : k \in {"raise", "none", "dict_no_validators"}}
        \cup {[kind |-> "dict", validators |-> vs] : vs \in {<<>>, <<"v1", "v2">>}}

\* _collect_validator_approvals: an exception, or some of the validators it was given
CollectReplies(vs) ==
    {[kind |-> "raise", approvals |-> <<>>]}
        \cup {[kind |-> "ok", approvals |-> a] : a \in {<<>>, vs}}

\* line 177: project_details.get('validators', [])
DetailsValidators(d) == IF d.kind = "dict" THEN d.validators ELSE <<>>

\* line 191: int(metric.value * 100)
ToFixedPoint(q) == 25 * q

\* lines 189-193: validated_metrics.append({...})
AppendValidatedFront(vm, m, approvals) ==
    <<[metric_name |-> m.metric_name, value |-> ToFixedPoint(m.value),
       validator_approvals |-> approvals]>> \o vm
AppendValidated(vm, m, approvals) ==
    Append(vm, [metric_name |-> m.metric_name, value |-> ToFixedPoint(m.value),
                validator_approvals |-> approvals])

\* lines 195-198: tx_params
ImpactTxParams(pid, vm) == [method |-> "add-impact-metrics", args |-> <<pid, vm>>]

NoMetric == [metric_name |-> "", value |-> 0]
FetchEntry(pid) ==
    [call |-> "get_project_details", project_id |-> pid, validators |-> <<>>,
     metric |-> NoMetric, request |-> NoRequest]
CollectEntry(pid, vs, m) ==
    [call |-> "_collect_validator_approvals", project_id |-> pid, validators |-> vs,
     metric |-> m, request |-> NoRequest]
ExecuteEntry(pid, req) ==
    [call |-> "execute_contract_call", project_id |-> pid, validators |-> <<>>,
     metric |-> NoMetric, request |-> req]

\* lines 181-200: the next await after k metrics are validated: the collection for
\* metric k+1, or, past the last one, execute_contract_call
ImpactContinue(pid, ms, vs, vm, tr) ==
    IF Len(vm) < Len(ms)
    THEN /\ trace' = Append(tr, CollectEntry(pid, vs, ms[Len(vm) + 1]))
         /\ ipc' = "collect"
    ELSE /\ trace' = Append(tr, ExecuteEntry(pid, ImpactTxParams(pid, vm)))
         /\ ipc' = "execute"

\* lines 162-176: the call, up to the await of get_project_details
ValidateImpactCall ==
    /\ ipc = "idle"
    /\ \E pid \in ProjectIds, ms \in SeqsUpTo(ImpactMetrics, MaxMetrics) :
        /\ metrics' = ms
        /\ trace' = <<FetchEntry(pid)>>
        /\ ipc' = "fetch"
    /\ UNCHANGED <<details, validators, validated>>
    /\ UNCHANGED <<createVars, milestoneVars>>

\* lines 176-187: get_project_details answers
FetchReturn ==
    /\ ipc = "fetch"
    /\ \E d \in DetailsReplies :
        /\ details' = d
        /\ IF d.kind \in {"raise", "none"}
           THEN /\ ipc' = "failed"
                /\ UNCHANGED <<validators, validated, trace>>
           ELSE /\ validators' = DetailsValidators(d)
                /\ validated' = <<>>
                /\ ImpactContinue(trace[1].project_id, metrics, validators', <<>>, trace)
    /\ UNCHANGED metrics
    /\ UNCHANGED <<createVars, milestoneVars>>

\* lines 183-200: _collect_validator_approvals answers
CollectReturn ==
    /\ ipc = "collect"
    /\ \E r \in CollectReplies(validators) :
        IF r.kind = "raise"
        THEN /\ ipc' = "failed"
             /\ UNCHANGED <<validated, trace>>
        ELSE /\ validated' = AppendValidated(validated, metrics[Len(validated) + 1],
                                             r.approvals)
             /\ ImpactContinue(trace[1].project_id, metrics, validators, validated', trace)
    /\ UNCHANGED <<metrics, details, validators>>
    /\ UNCHANGED <<createVars, milestoneVars>>

\* line 200: execute_contract_call answers
ImpactExecuteReturn ==
    /\ ipc = "execute"
    /\ \E g \in GatewayReplies : ipc' = IF g.kind = "raise" THEN "failed" ELSE "executed"
    /\ UNCHANGED <<metrics, details, validators, validated, trace>>
    /\ UNCHANGED <<createVars, milestoneVars>>

----------------------------------------------------------------------------
Init ==
    /\ pc = [c \in Calls |-> "idle"]
    /\ project = [c \in Calls |-> [name |-> "", description |-> "", target_funding |-> 0]]
    /\ proposed = [c \in Calls |-> <<>>]
    /\ infos = [c \in Calls |-> <<>>]
    /\ verified = [c \in Calls |-> <<>>]
    /\ vvResult = [c \in Calls |-> Pending]
    /\ request = [c \in Calls |-> NoRequest]
    /\ execCount = [c \in Calls |-> 0]
    /\ fault = [c \in Calls |-> "none"]
    /\ outcome = [c \in Calls |-> Pending]
    /\ mpc = "idle"
    /\ milestones = <<>>
    /\ mrequest = NoRequest
    /\ mexecCount = 0
    /\ mfault = "none"
    /\ moutcome = Pending
    /\ ipc = "idle"
    /\ metrics = <<>>
    /\ details = [kind |-> "none", validators |-> <<>>]
    /\ validators = <<>>
    /\ validated = <<>>
    /\ trace = <<>>

\* One caller, one operation at a time
AllIdle == (\A c \in Calls : pc[c] = "idle") /\ mpc = "idle" /\ ipc = "idle"

Next ==
    \/ AllIdle /\ CreateCall("c1", Projects, ValidatorIds, MaxValidators)
    \/ LookupReturn("c1", RegistryReplies)
    \/ ExecuteReturn("c1")
    \/ AllIdle /\ AddMilestonesCall
    \/ AddMilestonesExecuteReturn
    \/ AllIdle /\ ValidateImpactCall
    \/ FetchReturn
    \/ CollectReturn
    \/ ImpactExecuteReturn

Spec == Init /\ [][Next]_vars

\* Two create_conservation_project calls on one tracker, interleaved at their awaits
NextConc ==
    \/ \E c \in Calls : mpc = "idle" /\ ipc = "idle"
                        /\ CreateCall(c, ConcProjects, ConcValidatorIds, MaxConcValidators)
    \/ \E c \in Calls : LookupReturn(c, ConcRegistryReplies)
    \/ \E c \in Calls : ExecuteReturn(c)

SpecConc == Init /\ [][NextConc]_vars

----------------------------------------------------------------------------
(* Properties *)

\* A list entry qualifies: the lookup gave a record whose score is at least 75
QualifyingEntry(r) == r.kind = "info" /\ ~(r.reputation_score < 75)

\* The entries of vs whose lookup (the same position of rs) qualifies, in order
RECURSIVE QualifyingSubsequence(_, _)
QualifyingSubsequence(vs, rs) ==
    IF vs = <<>> \/ rs = <<>> THEN <<>>
    ELSE LET n == Len(vs)
             m == Len(rs)
             k == IF n < m THEN n ELSE m
             front == QualifyingSubsequence(SubSeq(vs, 1, k - 1), SubSeq(rs, 1, k - 1))
         IN  IF QualifyingEntry(rs[k]) THEN front \o <<vs[k]>> ELSE front

\* Every lookup of the call's candidate list has answered, none with an exception
LookupsCompleted(c) ==
    /\ pc[c] # "idle"
    /\ Len(infos[c]) = Len(proposed[c])
    /\ \A i \in 1..Len(infos[c]) : infos[c][i].kind # "raise"

RegistryFailed(c) == \E i \in 1..Len(infos[c]) : infos[c][i].kind = "raise"

\* C1: when at least 2 entries of the candidate list qualify, _validate_validators
\* returns exactly the qualifying entries, in their input order.
C1_ReturnsQualifyingInOrder ==
    LET q == QualifyingSubsequence(proposed["c1"], infos["c1"])
    IN  (LookupsCompleted("c1") /\ Len(q) >= 2)
            => /\ vvResult["c1"].kind = "returned"
               /\ vvResult["c1"].value = q

C1_Witness ==
    /\ LookupsCompleted("c1")
    /\ Len(proposed["c1"]) = 3
    /\ vvResult["c1"].kind = "returned"
    /\ vvResult["c1"].value = <<"v3", "v1">>
    /\ infos["c1"][2].kind = "info"
    /\ infos["c1"][1].reputation_score = 75

\* C2: when fewer than 2 entries qualify (the empty list, lookups that give None,
\* scores below 75), _validate_validators raises the insufficient-validators
\* error and returns no list.
C2_FewerThanTwoRaises ==
    LET q == QualifyingSubsequence(proposed["c1"], infos["c1"])
    IN  (LookupsCompleted("c1") /\ Len(q) < 2)
            => /\ vvResult["c1"].kind = "raised"
               /\ vvResult["c1"].value = "InsufficientValidators"
               /\ outcome["c1"].kind = "raised"

C2_Witness ==
    /\ LookupsCompleted("c1")
    /\ Len(proposed["c1"]) = 3
    /\ Len(QualifyingSubsequence(proposed["c1"], infos["c1"])) = 1
    /\ \E i \in 1..3 : infos["c1"][i].kind = "none"
    /\ \E i \in 1..3 : infos["c1"][i].reputation_score = 74
    /\ vvResult["c1"].kind = "raised"

\* C3: when create_conservation_project fails validator validation, or
\* add_project_milestones fails the percentage check, the error reaches the
\* caller and execute_contract_call was never invoked in that operation.
C3_NoGatewayCallOnValidationFailure ==
    /\ fault["c1"] = "InsufficientValidators"
        => /\ outcome["c1"].kind = "raised"
           /\ outcome["c1"].value = "InsufficientValidators"
           /\ execCount["c1"] = 0
           /\ request["c1"].method = "none"
    /\ mfault = "InvalidMilestoneAllocation"
        => /\ moutcome.kind = "raised"
           /\ moutcome.value = "InvalidMilestoneAllocation"
           /\ mexecCount = 0
           /\ mrequest.method = "none"

C3_Witness ==
    /\ mpc = "done"
    /\ mfault = "InvalidMilestoneAllocation"
    /\ Len(milestones) = 2
    /\ moutcome.kind = "raised"
    /\ mexecCount = 0

\* The percentages of a milestone list, added from the last one, in halves
RECURSIVE TotalHalves(_)
TotalHalves(ms) ==
    IF Len(ms) = 0 THEN 0
    ELSE TotalHalves(SubSeq(ms, 1, Len(ms) - 1)) + ms[Len(ms)].funding_percentage

\* C4: add_project_milestones builds and executes the add-project-milestones call
\* exactly when the funding percentages sum to 100, and otherwise (99, 101, the
\* empty list) fails with the invalid-milestone-allocation error.
C4_ProceedsIffSumIs100 ==
    mpc # "idle" =>
        IF TotalHalves(milestones) = 200
        THEN /\ mrequest.method = "add-project-milestones"
             /\ mexecCount = 1
             /\ mfault # "InvalidMilestoneAllocation"
        ELSE /\ mrequest.method = "none"
             /\ mexecCount = 0
             /\ mpc = "done"
             /\ moutcome.kind = "raised"
             /\ moutcome.value = "InvalidMilestoneAllocation"

C4_Witness ==
    /\ mpc = "execute"
    /\ Len(milestones) = 3
    /\ TotalHalves(milestones) = 200
    /\ mrequest.method = "add-project-milestones"
    /\ mexecCount = 1

\* target_funding * 100 rounded to the nearest integer, halves to the even one
RoundToCents(mills) ==
    LET lo == mills \div 10
        rest == mills - 10 * lo
    IN  IF rest < 5 THEN lo
        ELSE IF rest > 5 THEN lo + 1
        ELSE IF lo % 2 = 0 THEN lo ELSE lo + 1

\* n is target_funding * 100 with its fraction dropped
IsTruncation(mills, n) ==
    IF mills >= 0
    THEN 10 * n <= mills /\ mills < 10 * (n + 1)
    ELSE 10 * n >= mills /\ mills > 10 * (n - 1)

\* C5 (as stated): the create-conservation-project request carries
\* [name, description, round(target_funding * 100), verified validators].
C5_RoundedCents ==
    request["c1"].method # "none" =>
        /\ request["c1"].method = "create-conservation-project"
        /\ request["c1"].args[3] = RoundToCents(project["c1"].target_funding)

\* C5 (amended): the create-conservation-project request carries
\* [name, description, target_funding * 100 with its fraction dropped (toward
\* zero), verified validators].
C5_TruncatedCents ==
    request["c1"].method # "none" =>
        /\ request["c1"].method = "create-conservation-project"
        /\ Len(request["c1"].args) = 4
        /\ request["c1"].args[1] = project["c1"].name
        /\ request["c1"].args[2] = project["c1"].description
        /\ IsTruncation(project["c1"].target_funding, request["c1"].args[3])
        /\ vvResult["c1"].kind = "returned"
        /\ request["c1"].args[4] = vvResult["c1"].value

C5_Witness ==
    /\ request["c1"].method = "create-conservation-project"
    /\ project["c1"].target_funding = 19995
    /\ request["c1"].args[3] = 1999
    /\ request["c1"].args[4] = <<"v1", "v2">>

\* C6: in create_conservation_project and add_project_milestones a failure of any
\* stage is re-raised to the caller as it is, nothing is returned after a
\* failure, and a response is returned only when execute_contract_call gave it.
C6_FailuresPropagate ==
    /\ pc["c1"] = "done"
        => /\ outcome["c1"].kind \in {"returned", "raised"}
           /\ fault["c1"] # "none"
                => outcome["c1"].kind = "raised" /\ outcome["c1"].value = fault["c1"]
           /\ outcome["c1"].kind = "returned"
                => /\ fault["c1"] = "none"
                   /\ execCount["c1"] = 1
                   /\ outcome["c1"].value = GatewayOk.value
    /\ pc["c1"] # "done" => outcome["c1"].kind = "pending" /\ fault["c1"] = "none"
    /\ mpc = "done"
        => /\ moutcome.kind \in {"returned", "raised"}
           /\ mfault # "none" => moutcome.kind = "raised" /\ moutcome.value = mfault
           /\ moutcome.kind = "returned"
                => /\ mfault = "none"
                   /\ mexecCount = 1
                   /\ moutcome.value = GatewayOk.value
    /\ mpc # "done" => moutcome.kind = "pending" /\ mfault = "none"

C6_Witness ==
    /\ pc["c1"] = "done"
    /\ fault["c1"] = "GatewayError"
    /\ execCount["c1"] = 1
    /\ outcome["c1"].kind = "raised"
    /\ outcome["c1"].value = "GatewayError"

\* The integer percentages of a request's milestone list, added up
RECURSIVE TotalSent(_)
TotalSent(data) ==
    IF Len(data) = 0 THEN 0
    ELSE data[1].funding_percentage + TotalSent(Tail(data))

\* C7: in every add-project-milestones request handed to the gateway the integer
\* funding_percentage values sum to exactly 100.
C7_SentPercentagesSumTo100 ==
    mrequest.method = "add-project-milestones" => TotalSent(mrequest.args[2]) = 100

\* C8: validate_project_impact first fetches the project details, then collects
\* approvals once per metric in input order, each with the validators of the
\* fetched details (none when the details have no 'validators' entry), and only
\* then calls execute_contract_call once, with method add-impact-metrics and a
\* metric list of the input's length and order; after a failed fetch or
\* collection execute_contract_call is not invoked.
C8_ImpactCallOrder ==
    ipc # "idle" =>
        LET n == Len(metrics)
            vs == IF details.kind = "dict" THEN details.validators ELSE <<>>
            collected == IF Len(trace) - 1 < n THEN Len(trace) - 1 ELSE n
        IN  /\ Len(trace) >= 1 /\ Len(trace) <= n + 2
            /\ trace[1].call = "get_project_details"
            /\ \A i \in 2..Len(trace) :
                 IF i <= n + 1
                 THEN /\ trace[i].call = "_collect_validator_approvals"
                      /\ trace[i].metric = metrics[i - 1]
                      /\ trace[i].validators = vs
                 ELSE /\ trace[i].call = "execute_contract_call"
                      /\ trace[i].request.method = "add-impact-metrics"
                      /\ Len(trace[i].request.args[2]) = n
                      /\ \A j \in 1..n :
                           trace[i].request.args[2][j].metric_name = metrics[j].metric_name
                      /\ Len(validated) = n
                      /\ ipc \in {"execute", "executed", "failed"}
            /\ ipc = "fetch" => Len(trace) = 1
            /\ details.kind \in {"raise", "none"} => Len(trace) = 1
            /\ ipc = "collect" => Len(trace) = Len(validated) + 2 /\ Len(trace) <= n + 1
            /\ ipc \in {"execute", "executed"} => Len(trace) = n + 2
            /\ Len(validated) <= collected

C8_Witness ==
    /\ ipc = "executed"
    /\ Len(metrics) = 2
    /\ metrics[1].metric_name # metrics[2].metric_name
    /\ validators = <<"v1", "v2">>
    /\ Len(trace) = 4
    /\ trace[4].request.args[2][1].validator_approvals = <<"v1", "v2">>

\* C9: the validator list of every create-conservation-project request names at
\* least 2 distinct validators.
C9_TwoDistinctValidators ==
    request["c1"].method = "create-conservation-project" =>
        LET vs == request["c1"].args[4]
        IN  Cardinality({vs[i] : i \in 1..Len(vs)}) >= 2

\* C10: of two create_conservation_project calls interleaved at their awaits,
\* each ends as it would alone: its list of verified validators and its request
\* hold the qualifying entries of its own candidates, in its own order, and it
\* fails for want of validators exactly when fewer than 2 of its own qualify.
C10_InterleavedCallsIndependent ==
    \A c \in Calls :
        LET q == QualifyingSubsequence(proposed[c], infos[c])
        IN  /\ pc[c] # "idle" /\ ~RegistryFailed(c) => verified[c] = q
            /\ RegistryFailed(c)
                 => /\ outcome[c].kind = "raised"
                    /\ outcome[c].value = "RegistryError"
                    /\ request[c].method = "none"
            /\ (LookupsCompleted(c) /\ Len(q) < 2)
                 => /\ outcome[c].kind = "raised"
                    /\ outcome[c].value = "InsufficientValidators"
                    /\ request[c].method = "none"
            /\ (LookupsCompleted(c) /\ Len(q) >= 2)
                 => /\ request[c].method = "create-conservation-project"
                    /\ request[c].args[4] = q
                    /\ outcome[c].value \in {"none", "tx-receipt", "GatewayError"}

C10_Witness ==
    /\ pc["c1"] = "lookup" /\ pc["c2"] = "lookup"
    /\ verified["c1"] = <<"v1">>
    /\ verified["c2"] = <<"v2">>
    /\ Len(proposed["c1"]) = 2 /\ Len(proposed["c2"]) = 2
====
